---- MODULE Spec2Model ----
(***************************************************************************)
(* Model of state_re.py, the State Department consular-chiefs text parser. *)
(* Python strings are TLA+ strings; positions in a string are 1-based, so  *)
(* Python's index i is position i + 1 here.  A dict is a function whose    *)
(* domain is the set of keys it holds.  A call that can raise yields an    *)
(* outcome record [raised, value].                                         *)
(***************************************************************************)
EXTENDS Integers, Sequences, FiniteSets, TLC

VARIABLES data, idx, clean_data, output, name, name_data,
          positions_list, cleaned_positions, pc

vars == <<data, idx, clean_data, output, name, name_data,
          positions_list, cleaned_positions, pc>>

(***************************************************************************)
(* Character classes of Python 2's re module on byte strings.              *)
(***************************************************************************)
Digit == {"0", "1", "2", "3", "4", "5", "6", "7", "8", "9"}

Letter ==
    {"a", "b", "c", "d", "e", "f", "g", "h", "i", "j", "k", "l", "m",
     "n", "o", "p", "q", "r", "s", "t", "u", "v", "w", "x", "y", "z",
     "A", "B", "C", "D", "E", "F", "G", "H", "I", "J", "K", "L", "M",
     "N", "O", "P", "Q", "R", "S", "T", "U", "V", "W", "X", "Y", "Z"}

\* \w
Word == Letter \cup Digit \cup {"_"}

\* \s
Whitespace == {" ", "\t", "\n", "\r", "\f"}

\* \d{4}: the repetition count of every year group
YearDigits == 4

(***************************************************************************)
(* String helpers.                                                         *)
(***************************************************************************)
CharAt(s, i) == IF i >= 1 /\ i <= Len(s) THEN SubSeq(s, i, i) ELSE ""

\* s[lo..hi] is a run of characters of class C (empty when hi < lo)
RunIn(s, lo, hi, C) ==
    /\ lo >= 1
    /\ hi <= Len(s)
    /\ \A i \in lo..hi : SubSeq(s, i, i) \in C

\* s[lo..hi] is a run of characters outside X: the negated class [^X]
RunNotIn(s, lo, hi, X) ==
    /\ lo >= 1
    /\ hi <= Len(s)
    /\ \A i \in lo..hi : SubSeq(s, i, i) \notin X

MinOf(S) == CHOOSE a \in S : \A b \in S : a <= b

MaxOf(S) == CHOOSE a \in S : \A b \in S : a >= b

\* Python's "sub in s"
Contains(s, sub) ==
    \E i \in 1..(Len(s) - Len(sub) + 1) : SubSeq(s, i, i + Len(sub) - 1) = sub

\* the positions at which sub occurs in s
Occurrences(s, sub) ==
    {i \in 1..(Len(s) - Len(sub) + 1) : SubSeq(s, i, i + Len(sub) - 1) = sub}

\* Python's s.split(sep): sep is a literal separator, not a pattern
RECURSIVE StrSplit(_, _)
StrSplit(s, sep) ==
    IF Occurrences(s, sep) = {}
    THEN <<s>>
    ELSE LET i == MinOf(Occurrences(s, sep))
         IN  <<SubSeq(s, 1, i - 1)>>
                 \o StrSplit(SubSeq(s, i + Len(sep), Len(s)), sep)

\* a dict with no keys
EmptyDict == [k \in {} |-> ""]

\* re's result when the pattern does not match (None)
NoMatch == [matched |-> FALSE]

\* "if m.group(g)": the group took part in the match and is not empty
GroupTruthy(m, g) == g \in DOMAIN m.groups /\ m.groups[g] # ""

Return(v) == [raised |-> FALSE, value |-> v]

Raise(e) == [raised |-> TRUE, value |-> e]

\* ------------------------------------------------------------------------
\* name_parser = (?P<last_name>[^,]*),\s(?P<first_name>[^0-9,]*)
\* used with match(): anchored at the start, not at the end.
\* ------------------------------------------------------------------------
\* the lengths [^,]* can take for the rest of the pattern to match
NameLastLengths(s) ==
    {k \in 0..Len(s) :
        /\ RunNotIn(s, 1, k, {","})
        /\ CharAt(s, k + 1) = ","
        /\ CharAt(s, k + 2) \in Whitespace}

\* the lengths [^0-9,]* can take from position p
NameFirstLengths(s, p) ==
    {m \in 0..(Len(s) - p + 1) : RunNotIn(s, p, p + m - 1, Digit \cup {","})}

\* the pattern anchored at both ends, as fullmatch() would apply it
name_parser_fullmatch(s) ==
    IF NameLastLengths(s) = {}
          \/ MaxOf(NameLastLengths(s)) + 2
                 + MaxOf(NameFirstLengths(s, MaxOf(NameLastLengths(s)) + 3))
             # Len(s)
    THEN NoMatch
    ELSE LET k == MaxOf(NameLastLengths(s))
         IN  [matched |-> TRUE,
              groups  |-> [last_name  |-> SubSeq(s, 1, k),
                           first_name |-> SubSeq(s, k + 3, Len(s))]]

name_parser_match(s) ==
    IF NameLastLengths(s) = {}
    THEN NoMatch
    ELSE LET k == MaxOf(NameLastLengths(s))
             m == MaxOf(NameFirstLengths(s, k + 3))
         IN  [matched |-> TRUE,
              groups  |-> [last_name  |-> SubSeq(s, 1, k),
                           first_name |-> SubSeq(s, k + 3, k + 2 + m)]]

cleanName(n) ==
    LET match == name_parser_match(n)
    IN  IF ~match.matched
        THEN EmptyDict
        ELSE [first_name |-> match.groups.first_name,
              last_name  |-> match.groups.last_name]

\* ------------------------------------------------------------------------
\* full_position_parser = ([^0-9,(]*)  used with match()
\* ------------------------------------------------------------------------
\* the lengths [^0-9,(]* can take from the start of the string
FullPositionLengths(s) ==
    {k \in 0..Len(s) : RunNotIn(s, 1, k, Digit \cup {",", "("})}

\* the pattern with + in place of *: no match on an empty leading run
full_position_parser_plus(s) ==
    IF FullPositionLengths(s) = {0}
    THEN NoMatch
    ELSE [matched |-> TRUE,
          groups  |-> <<SubSeq(s, 1, MaxOf(FullPositionLengths(s)))>>]

\* the star accepts the empty run, so the pattern matches every string
full_position_parser_match(s) ==
    IF FullPositionLengths(s) = {}
    THEN NoMatch
    ELSE [matched |-> TRUE,
          groups  |-> <<SubSeq(s, 1, MaxOf(FullPositionLengths(s)))>>]

\* the argument of text.split() at line 114, taken by str.split as a literal
TitleSeparator == "[^(),]*?,"

\* the marker of the site's missing-label defect
BadTitleMarker == "no-label"

BadTitleReplacement == "NO POSITION TITLE AVAILABLE"

\* position['title'] raises KeyError on a dict without that key
scrubBadTitles(position) ==
    IF "title" \notin DOMAIN position
    THEN Raise("KeyError")
    ELSE IF Contains(position["title"], BadTitleMarker)
         THEN Return([position EXCEPT !["title"] = BadTitleReplacement])
         ELSE Return(position)

\* ------------------------------------------------------------------------
\* year_parser, three alternatives tried in this order at each position:
\*   \([^()]*?(?P<year_from>\d{4})[^()-]*?-[^()-]*?(?P<year_to>\d{4})[^()]*?\)
\*   \([^()]*?(?P<complex_year>\d{4})[^()]*?\)
\*   \((?P<simple_year>\d{4})\)
\* A lazy quantifier tries its lengths in increasing order, so the match
\* found is the one whose lengths are least, leftmost quantifier first.
\* ------------------------------------------------------------------------
Parens == {"(", ")"}

ParensHyphen == {"(", ")", "-"}

\* \d{4} at position p
YearAt(s, p) == RunIn(s, p, p + YearDigits - 1, Digit)

\* [^()]*?\) from position p
ClosesFrom(s, p) ==
    \E m \in 0..(Len(s) - p) :
        RunNotIn(s, p, p + m - 1, Parens) /\ CharAt(s, p + m) = ")"

\* [^()-]*?(?P<year_to>\d{4})[^()]*?\) from position p: the lengths of [^()-]*?
YearToSkips(s, p) ==
    {k \in 0..(Len(s) - p) :
        /\ RunNotIn(s, p, p + k - 1, ParensHyphen)
        /\ YearAt(s, p + k)
        /\ ClosesFrom(s, p + k + YearDigits)}

\* [^()-]*?-... from position p: the lengths of the [^()-]*? before the hyphen
HyphenSkips(s, p) ==
    {j \in 0..(Len(s) - p) :
        /\ RunNotIn(s, p, p + j - 1, ParensHyphen)
        /\ CharAt(s, p + j) = "-"
        /\ YearToSkips(s, p + j + 1) # {}}

\* first alternative at position p: the lengths of the leading [^()]*?
RangeSkips(s, p) ==
    {i \in 0..(Len(s) - p) :
        /\ CharAt(s, p) = "("
        /\ RunNotIn(s, p + 1, p + i, Parens)
        /\ YearAt(s, p + 1 + i)
        /\ HyphenSkips(s, p + 1 + i + YearDigits) # {}}

\* second alternative at position p: the lengths of the leading [^()]*?
ComplexSkips(s, p) ==
    {i \in 0..(Len(s) - p) :
        /\ CharAt(s, p) = "("
        /\ RunNotIn(s, p + 1, p + i, Parens)
        /\ YearAt(s, p + 1 + i)
        /\ ClosesFrom(s, p + 1 + i + YearDigits)}

\* third alternative at position p
SimpleYearAt(s, p) ==
    /\ CharAt(s, p) = "("
    /\ YearAt(s, p + 1)
    /\ CharAt(s, p + 1 + YearDigits) = ")"

YearMatchesAt(s, p) ==
    RangeSkips(s, p) # {} \/ ComplexSkips(s, p) # {} \/ SimpleYearAt(s, p)

\* the groups of the match at position p: the first alternative that matches
YearGroupsAt(s, p) ==
    IF RangeSkips(s, p) # {}
    THEN LET a == p + 1 + MinOf(RangeSkips(s, p))
             h == a + YearDigits + MinOf(HyphenSkips(s, a + YearDigits))
             b == h + 1 + MinOf(YearToSkips(s, h + 1))
         IN  [year_from |-> SubSeq(s, a, a + YearDigits - 1),
              year_to   |-> SubSeq(s, b, b + YearDigits - 1)]
    ELSE IF ComplexSkips(s, p) # {}
    THEN LET a == p + 1 + MinOf(ComplexSkips(s, p))
         IN  [complex_year |-> SubSeq(s, a, a + YearDigits - 1)]
    ELSE [simple_year |-> SubSeq(s, p + 1, p + YearDigits)]

\* search(): the match at the leftmost position that has one
year_parser_search(s) ==
    LET starts == {p \in 1..Len(s) : YearMatchesAt(s, p)}
    IN  IF starts = {}
        THEN NoMatch
        ELSE [matched |-> TRUE, groups |-> YearGroupsAt(s, MinOf(starts))]

\* ------------------------------------------------------------------------
\* location_parser, two alternatives tried in this order at each position:
\*   ((?:^|,|\s)+?(?P<open_location>\w+)(?:$|\n|\s|\t)(?:\(|\)|$|\d))
\*   (\((?P<enclosed_location>\w+)\))
\* ------------------------------------------------------------------------
\* $ without MULTILINE: at the end, or before a newline that ends the string
AtEnd(s, p) == p = Len(s) + 1 \/ (p = Len(s) /\ CharAt(s, p) = "\n")

\* (?:$|\n|\s|\t) at position p: the positions it can end at
OpenBoundaryEnds(s, p) ==
    {q \in {p, p + 1} :
        \/ q = p /\ AtEnd(s, p)
        \/ q = p + 1 /\ CharAt(s, p) \in ({"\n", "\t"} \cup Whitespace)}

\* (?:\(|\)|$|\d) at position p
OpenClosesAt(s, p) ==
    \/ CharAt(s, p) \in (Parens \cup Digit)
    \/ AtEnd(s, p)

\* \w+(?:$|\n|\s|\t)(?:\(|\)|$|\d) from position p: the lengths \w+ can take
OpenWordLengths(s, p) ==
    {w \in 1..(Len(s) - p + 1) :
        /\ RunIn(s, p, p + w - 1, Word)
        /\ \E q \in OpenBoundaryEnds(s, p + w) : OpenClosesAt(s, q)}

\* (?:^|,|\s)+? from position p: the positions the repetition can end at.
\* ^ takes no character and holds at the start only; the other two take one.
OpenPrefixEnds(s, p) ==
    {e \in p..(Len(s) + 1) :
        /\ e > p \/ p = 1
        /\ RunIn(s, p, e - 1, {","} \cup Whitespace)}

\* first alternative at position p: the ends of the lazy prefix for which the
\* rest matches
OpenStarts(s, p) == {e \in OpenPrefixEnds(s, p) : OpenWordLengths(s, e) # {}}

\* second alternative at position p: the lengths \w+ can take
EnclosedLengths(s, p) ==
    {w \in 1..(Len(s) - p) :
        /\ CharAt(s, p) = "("
        /\ RunIn(s, p + 1, p + w, Word)
        /\ CharAt(s, p + w + 1) = ")"}

LocationMatchesAt(s, p) == OpenStarts(s, p) # {} \/ EnclosedLengths(s, p) # {}

\* the groups of the match at position p: the lazy prefix ends as early as it
\* can, the greedy \w+ runs as far as it can
LocationGroupsAt(s, p) ==
    IF OpenStarts(s, p) # {}
    THEN LET e == MinOf(OpenStarts(s, p))
             w == MaxOf(OpenWordLengths(s, e))
         IN  [open_location |-> SubSeq(s, e, e + w - 1)]
    ELSE LET w == MaxOf(EnclosedLengths(s, p))
         IN  [enclosed_location |-> SubSeq(s, p + 1, p + w)]

\* search(): the match at the leftmost position that has one
location_parser_search(s) ==
    LET starts == {p \in 1..(Len(s) + 1) : LocationMatchesAt(s, p)}
    IN  IF starts = {}
        THEN NoMatch
        ELSE [matched |-> TRUE, groups |-> LocationGroupsAt(s, MinOf(starts))]

\* ------------------------------------------------------------------------
\* cleanPositions: the body of its loop for one position, and the loop
\* ------------------------------------------------------------------------
\* lines 114-121: the title and the text the year and location are read from
TitleAndText(position) ==
    LET text      == position
        split_str == StrSplit(text, TitleSeparator)
    IN  IF split_str[1] # text
        THEN [clean_pos |-> [raw_position |-> position, title |-> split_str[1]],
              text      |-> split_str[2]]
        ELSE LET full_title == full_position_parser_match(text)
             IN  IF full_title.matched
                 THEN [clean_pos |-> [raw_position |-> position,
                                      title        |-> full_title.groups[1]],
                       text      |-> text]
                 ELSE [clean_pos |-> [raw_position |-> position],
                       text      |-> text]

\* lines 129-140 with the fallback of line 140 outside its else
YearFieldsOf_KeepsText(year, text) ==
    [year_text |-> text]
        @@ IF ~year.matched
           THEN EmptyDict
           ELSE IF GroupTruthy(year, "year_from")
           THEN [year_from |-> year.groups.year_from,
                 year_to   |-> year.groups.year_to]
           ELSE [year_single |-> year.groups.complex_year]

\* lines 129-140: the year keys set from the result of the search
YearFieldsOf(year, text) ==
    IF year.matched
    THEN IF GroupTruthy(year, "year_from") /\ GroupTruthy(year, "year_to")
         THEN [year_from |-> year.groups.year_from,
               year_to   |-> year.groups.year_to]
         ELSE IF GroupTruthy(year, "simple_year")
         THEN [year_single |-> year.groups.simple_year]
         ELSE IF GroupTruthy(year, "complex_year")
         THEN [year_single |-> year.groups.complex_year]
         ELSE [year_text |-> text]
    ELSE [year_text |-> text]

\* lines 128-140
YearFields(text) == YearFieldsOf(year_parser_search(text), text)

\* lines 145-153: the location keys set from the result of the search
LocationFieldsOf(location, text) ==
    IF location.matched
    THEN IF GroupTruthy(location, "enclosed_location")
         THEN [location |-> location.groups.enclosed_location]
         ELSE IF GroupTruthy(location, "open_location")
         THEN [location |-> location.groups.open_location]
         ELSE [loc_text |-> text]
    ELSE [loc_text |-> text]

\* lines 144-153
LocationFields(text) == LocationFieldsOf(location_parser_search(text), text)

\* lines 128-153: the year and location keys are added to the scrubbed dict;
\* they are not reached when the scrub raised
WithYearAndLocation(scrubbed, text) ==
    IF scrubbed.raised
    THEN scrubbed
    ELSE Return(scrubbed.value @@ YearFields(text) @@ LocationFields(text))

\* lines 124-153, tt being the title and text of lines 108-121
CleanTitled(tt) == WithYearAndLocation(scrubBadTitles(tt.clean_pos), tt.text)

\* lines 108-153: the dict built for one position
cleanPosition(position) == CleanTitled(TitleAndText(position))

\* lines 155-159 appending only a dict in which something was recognised
AppendCleaned_OnlyRecognised(cleaned, clean_pos) ==
    IF clean_pos["title"] # ""
          \/ "year_text" \notin DOMAIN clean_pos
          \/ "loc_text" \notin DOMAIN clean_pos
    THEN Append(cleaned, clean_pos)
    ELSE cleaned

\* lines 155-159: the dict is appended when it holds any key
AppendCleaned(cleaned, clean_pos) ==
    IF Cardinality(DOMAIN clean_pos) > 0
    THEN Append(cleaned, clean_pos)
    ELSE cleaned

\* one pass of the loop: an exception ends it
AppendOrRaise(cleaned, r) ==
    IF r.raised THEN r ELSE Return(AppendCleaned(cleaned, r.value))

\* the loop over positions_list[n..], acc being the outcome so far
RECURSIVE cleanPositionsFrom(_, _, _)
cleanPositionsFrom(list, n, acc) ==
    IF n > Len(list) \/ acc.raised
    THEN acc
    ELSE cleanPositionsFrom(list, n + 1,
                            AppendOrRaise(acc.value, cleanPosition(list[n])))

cleanPositions(list) == cleanPositionsFrom(list, 1, Return(<<>>))

\* ------------------------------------------------------------------------
\* cleanPerson and the loop of cleanConsularData
\* ------------------------------------------------------------------------
\* lines 71-74: the name keys are copied when cleanName returned any
NameFields(clean_names) ==
    IF Cardinality(DOMAIN clean_names) > 0
    THEN [first_name |-> clean_names["first_name"],
          last_name  |-> clean_names["last_name"]]
    ELSE EmptyDict

\* line 77: the positions key, or the exception cleanPositions raised
WithPositions(clean_person, positions) ==
    IF positions.raised
    THEN positions
    ELSE Return(clean_person @@ [positions |-> positions.value])

cleanPerson(person) ==
    WithPositions(NameFields(cleanName(person.name)),
                  cleanPositions(person.positions))

\* lines 50-54 with the count incremented for every person of the loop
RoutePerson_CountsAll(cd, person, cleaned) ==
    IF cleaned.raised
    THEN cleaned
    ELSE IF "first_name" \notin DOMAIN cleaned.value
    THEN Raise("KeyError")
    ELSE IF cleaned.value["first_name"] # "" /\ cleaned.value["last_name"] # ""
    THEN Return([cd EXCEPT !.people = Append(@, cleaned.value),
                           !.count  = @ + 1])
    ELSE Return([cd EXCEPT !.errors = Append(@, person),
                           !.count  = @ + 1])

\* lines 50-54: clean_person['first_name'] raises KeyError on a person whose
\* name did not match
RoutePerson(cd, person, cleaned) ==
    IF cleaned.raised
    THEN cleaned
    ELSE IF "first_name" \notin DOMAIN cleaned.value
    THEN Raise("KeyError")
    ELSE IF cleaned.value["first_name"] # "" /\ cleaned.value["last_name"] # ""
    THEN Return([cd EXCEPT !.people = Append(@, cleaned.value),
                           !.count  = @ + 1])
    ELSE Return([cd EXCEPT !.errors = Append(@, person)])

\* lines 49-54: one pass of the loop
AddPerson(cd, person) == RoutePerson(cd, person, cleanPerson(person))

(***************************************************************************)
(* Inputs.                                                                 *)
(***************************************************************************)
MaxNameLen == 5

MaxTokens == 5

MaxPositions == 2

MaxPeople == 3

\* the strings made of at most n pieces of T
RECURSIVE Concats(_, _)
Concats(T, n) ==
    IF n = 0
    THEN {""}
    ELSE LET S == Concats(T, n - 1)
         IN  S \cup {s \o t : s \in S, t \in T}

\* the lists of at most n elements of S
RECURSIVE ListsUpTo(_, _)
ListsUpTo(S, n) ==
    IF n = 0
    THEN {<<>>}
    ELSE LET L == ListsUpTo(S, n - 1)
         IN  L \cup {Append(l, x) : l \in L, x \in S}

NameAlphabet == {"a", "b", ",", " ", "1"}

SampleNames ==
    {"Smith, John", "SmithJohn", "Smith, John2", "Smith, John, Jr",
     "Smith,John", "Smith, ", ", John", "Smith,\tJohn"}

NameInputs == Concats(NameAlphabet, MaxNameLen) \cup SampleNames

PositionTokens == {"a", " ", ",", "(", ")", "-", "1", "1990"}

SamplePositions ==
    {"Ambassador, Paris (1990-1994)",
     "Ambassador, Paris",
     "Officer (Berlin)",
     "(Berlin) Officer",
     "Consul (1990) (1991-1992)",
     "Envoy (c. 1990 1991-1992)",
     "(",
     "",
     "Chief[^(),]*?, Rome (1990)[^(),]*?,x",
     "(Rome)[^(),]*?, 1990",
     "no-label-found for chief (1990)",
     "Consul General\n"}

PositionInputs == Concats(PositionTokens, MaxTokens) \cup SamplePositions

PositionLists ==
    {<<s>> : s \in PositionInputs} \cup ListsUpTo(SamplePositions, MaxPositions)

RawPeople ==
    {[name |-> n, positions |-> <<"Officer (Berlin)">>] :
        n \in {"Smith, John", "SmithJohn", "Smith, ", ", John", "Smith, John2"}}
    \cup {[name |-> "Doe, Jane", positions |-> <<>>]}

RawDatasets ==
    {[count |-> c, raw_people |-> l] :
        c \in 0..MaxPeople, l \in ListsUpTo(RawPeople, MaxPeople)}

\* output before names2json.save is called
NotSaved == [saved |-> FALSE]

(***************************************************************************)
(* cleanConsularData(data): lines 39-42 are Init, each pass of the loop is *)
(* CleanNextPerson, lines 55-59 are Finish.                                *)
(***************************************************************************)
Init ==
    /\ data \in RawDatasets
    /\ idx = 0
    /\ clean_data = [count |-> 0, people |-> <<>>, errors |-> <<>>]
    /\ output = NotSaved
    /\ pc = "loop"
    /\ name = ""
    /\ name_data = EmptyDict
    /\ positions_list = <<>>
    /\ cleaned_positions = <<>>

CleanNextPerson ==
    /\ pc = "loop"
    /\ idx < Len(data.raw_people)
    /\ \E r \in {AddPerson(clean_data, data.raw_people[idx + 1])} :
           IF r.raised
           THEN /\ pc' = "raised"
                /\ UNCHANGED <<idx, clean_data>>
           ELSE /\ clean_data' = r.value
                /\ idx' = idx + 1
                /\ pc' = pc
    /\ UNCHANGED <<data, output, name, name_data, positions_list,
                   cleaned_positions>>

Finish ==
    /\ pc = "loop"
    /\ idx = Len(data.raw_people)
    /\ output' = [saved         |-> TRUE,
                  file          |-> "output_clean.json",
                  clean_data    |-> clean_data,
                  discrepancies |-> IF clean_data.count # data.count
                                    THEN <<data.count - clean_data.count>>
                                    ELSE <<>>]
    /\ pc' = "done"
    /\ UNCHANGED <<data, idx, clean_data, name, name_data, positions_list,
                   cleaned_positions>>

Next == CleanNextPerson \/ Finish

Spec == Init /\ [][Next]_vars

(***************************************************************************)
(* cleanName applied to one name.                                          *)
(***************************************************************************)
InitName ==
    /\ name \in NameInputs
    /\ name_data = EmptyDict
    /\ pc = "name_call"
    /\ data = [count |-> 0, raw_people |-> <<>>]
    /\ idx = 0
    /\ clean_data = [count |-> 0, people |-> <<>>, errors |-> <<>>]
    /\ output = NotSaved
    /\ positions_list = <<>>
    /\ cleaned_positions = <<>>

CallCleanName ==
    /\ pc = "name_call"
    /\ name_data' = cleanName(name)
    /\ pc' = "name_done"
    /\ UNCHANGED <<data, idx, clean_data, output, name, positions_list,
                   cleaned_positions>>

NextName == CallCleanName

SpecName == InitName /\ [][NextName]_vars

(***************************************************************************)
(* cleanPositions applied to one list of positions.                        *)
(***************************************************************************)
InitPositions ==
    /\ positions_list \in PositionLists
    /\ cleaned_positions = <<>>
    /\ pc = "positions_call"
    /\ data = [count |-> 0, raw_people |-> <<>>]
    /\ idx = 0
    /\ clean_data = [count |-> 0, people |-> <<>>, errors |-> <<>>]
    /\ output = NotSaved
    /\ name = ""
    /\ name_data = EmptyDict

CallCleanPositions ==
    /\ pc = "positions_call"
    /\ \E r \in {cleanPositions(positions_list)} :
           IF r.raised
           THEN /\ pc' = "raised"
                /\ UNCHANGED cleaned_positions
           ELSE /\ cleaned_positions' = r.value
                /\ pc' = "positions_done"
    /\ UNCHANGED <<data, idx, clean_data, output, name, name_data,
                   positions_list>>

NextPositions == CallCleanPositions

SpecPositions == InitPositions /\ [][NextPositions]_vars

(***************************************************************************)
(* Properties of cleanConsularData, checked under Spec.                    *)
(***************************************************************************)
\* the name of a raw person does not match name_parser
UnparsedName(person) == ~name_parser_match(person.name).matched

\* C1: a raw person whose name does not match the name pattern never makes
\* cleanConsularData raise; once its pass of the loop is over, the raw record
\* is in errors.
C1_UnparsedNameGoesToErrors ==
    /\ pc = "raised" => ~UnparsedName(data.raw_people[idx + 1])
    /\ \A i \in 1..idx :
           UnparsedName(data.raw_people[i]) =>
               \E j \in 1..Len(clean_data.errors) :
                   clean_data.errors[j] = data.raw_people[i]

\* C2: whenever cleanConsularData has stopped, it has finished with an output
\* whose people and errors together hold as many entries as raw_people.
C2_EveryRawPersonCollected ==
    pc # "loop" =>
        /\ pc = "done"
        /\ output.saved
        /\ Len(output.clean_data.people) + Len(output.clean_data.errors)
               = Len(data.raw_people)

\* C3: after every pass of the loop and in the saved output, count is the
\* length of people, whatever data.count says.
C3_CountIsLenPeople ==
    /\ clean_data.count = Len(clean_data.people)
    /\ output.saved =>
           output.clean_data.count = Len(output.clean_data.people)

\* a finished run that accepted two people, rejected one, and was told three
C3_Witness ==
    /\ pc = "done"
    /\ output.saved
    /\ output.clean_data.count = 2
    /\ Len(output.clean_data.errors) = 1
    /\ data.count = 3
    /\ output.discrepancies = <<1>>

(***************************************************************************)
(* Properties of cleanName, checked under SpecName.                        *)
(***************************************************************************)
\* the whole string reads <last>,<whitespace><first>: no comma in <last>, no
\* digit or comma in <first>
WholeNameShape(n) ==
    \E k \in 0..Len(n) :
        /\ RunNotIn(n, 1, k, {","})
        /\ CharAt(n, k + 1) = ","
        /\ CharAt(n, k + 2) \in Whitespace
        /\ RunNotIn(n, k + 3, Len(n), Digit \cup {","})

\* C6 as stated: cleanName returns the two names exactly when the whole string
\* has the shape, and the empty result for every other string.
C6_AllOrNothing ==
    pc = "name_done" => (name_data # EmptyDict <=> WholeNameShape(name))

\* the positions of the commas of n
Commas(n) == {i \in 1..Len(n) : CharAt(n, i) = ","}

\* C6 amended: cleanName returns the two names exactly when the first comma of
\* the string is followed by a whitespace character; last_name is the text
\* before that comma, first_name the longest run after the whitespace
\* character that holds no digit and no comma, and the rest is ignored.
C6_PrefixMatch ==
    pc = "name_done" =>
        IF Commas(name) = {}
              \/ CharAt(name, MinOf(Commas(name)) + 1) \notin Whitespace
        THEN name_data = EmptyDict
        ELSE /\ DOMAIN name_data = {"first_name", "last_name"}
             /\ name_data.last_name = SubSeq(name, 1, MinOf(Commas(name)) - 1)
             /\ \E m \in 0..Len(name) :
                    /\ name_data.first_name
                           = SubSeq(name, MinOf(Commas(name)) + 2,
                                    MinOf(Commas(name)) + 1 + m)
                    /\ Len(name_data.first_name) = m
                    /\ RunNotIn(name_data.first_name, 1, m, Digit \cup {","})
                    /\ CharAt(name, MinOf(Commas(name)) + 2 + m)
                           \in (Digit \cup {",", ""})

\* a name accepted although text follows the first name
C6_Witness ==
    /\ pc = "name_done"
    /\ name_data # EmptyDict
    /\ name_data.first_name # ""
    /\ name_data.last_name # ""
    /\ Len(name_data.last_name) + 2 + Len(name_data.first_name) < Len(name)

(***************************************************************************)
(* Properties of cleanPositions, checked under SpecPositions.              *)
(***************************************************************************)
\* the text the year and the location of a position are read from
WorkingText(position) == TitleAndText(position).text

\* the year forms a cleaned position carries
YearForms(cp) ==
    ({"year_single", "year_text"} \cap DOMAIN cp)
        \cup (IF {"year_from", "year_to"} \subseteq DOMAIN cp
              THEN {"year_range"}
              ELSE {})

\* C4: every cleaned position carries exactly one of year_single, the pair
\* year_from and year_to, year_text, and exactly one of location, loc_text;
\* year_from and year_to come together.
C4_ExactlyOneYearAndLocation ==
    pc = "positions_done" =>
        \A i \in 1..Len(cleaned_positions) :
            /\ Cardinality(YearForms(cleaned_positions[i])) = 1
            /\ "year_from" \in DOMAIN cleaned_positions[i]
                   <=> "year_to" \in DOMAIN cleaned_positions[i]
            /\ "year_from" \in DOMAIN cleaned_positions[i]
                   => "year_single" \notin DOMAIN cleaned_positions[i]
            /\ Cardinality({"location", "loc_text"}
                               \cap DOMAIN cleaned_positions[i]) = 1

\* a list whose first position has a year range and a location and whose
\* second has neither a year nor a location
C4_Witness ==
    /\ pc = "positions_done"
    /\ Len(cleaned_positions) = 2
    /\ {"year_from", "year_to", "location"} \subseteq DOMAIN cleaned_positions[1]
    /\ {"year_text", "loc_text"} \subseteq DOMAIN cleaned_positions[2]

\* the spans <<first, last>> of the words of text in open form
OpenWords(text) ==
    {<<e, e + MaxOf(OpenWordLengths(text, e)) - 1>> :
        e \in UNION {OpenStarts(text, p) : p \in 1..(Len(text) + 1)}}

\* the spans <<first, last>> of the parenthesized single words of text
EnclosedSpans(text) ==
    {<<p, p + MaxOf(EnclosedLengths(text, p)) + 1>> :
        p \in {q \in 1..Len(text) : EnclosedLengths(text, q) # {}}}

\* C5: when the working text holds an open-form word and, apart from it, a
\* parenthesized single word, location is a parenthesized word of the text.
C5_EnclosedLocationWins ==
    pc = "positions_done" =>
        \A i \in 1..Len(cleaned_positions) :
            LET text == WorkingText(positions_list[i])
            IN  (\E o \in OpenWords(text), c \in EnclosedSpans(text) :
                     o[2] < c[1] \/ o[1] > c[2])
                => /\ "location" \in DOMAIN cleaned_positions[i]
                   /\ \E c \in EnclosedSpans(text) :
                          cleaned_positions[i].location
                              = SubSeq(text, c[1] + 1, c[2] - 1)

Scrubbed(title) ==
    IF Contains(title, BadTitleMarker) THEN BadTitleReplacement ELSE title

\* C8: for a position whose prefix up to its first comma holds no "(" and no
\* digit, title is that prefix and a year_text or loc_text fallback holds the
\* remainder after the comma.
C8_CommaBranchWorkingText ==
    pc = "positions_done" =>
        \A i \in 1..Len(cleaned_positions) :
            LET raw  == positions_list[i]
                cp   == cleaned_positions[i]
            IN  (/\ Commas(raw) # {}
                 /\ RunNotIn(raw, 1, MinOf(Commas(raw)) - 1, Digit \cup {"("}))
                => LET rest == SubSeq(raw, MinOf(Commas(raw)) + 1, Len(raw))
                   IN  /\ cp.title
                              = Scrubbed(SubSeq(raw, 1, MinOf(Commas(raw)) - 1))
                       /\ "year_text" \in DOMAIN cp => cp.year_text = rest
                       /\ "loc_text" \in DOMAIN cp => cp.loc_text = rest

\* the positions of text at which the range alternative of year_parser matches
RangeSpans(text) == {p \in 1..Len(text) : RangeSkips(text, p) # {}}

\* C9: when the working text holds a parenthesized span with two 4-digit
\* numbers separated by a hyphen, year_from and year_to are the numbers of
\* such a span and year_single is not set.
C9_RangeBeforeSingleYear ==
    pc = "positions_done" =>
        \A i \in 1..Len(cleaned_positions) :
            LET text == WorkingText(positions_list[i])
                cp   == cleaned_positions[i]
            IN  RangeSpans(text) # {}
                => /\ {"year_from", "year_to"} \subseteq DOMAIN cp
                   /\ "year_single" \notin DOMAIN cp
                   /\ \E p \in RangeSpans(text) :
                          /\ cp.year_from = YearGroupsAt(text, p).year_from
                          /\ cp.year_to = YearGroupsAt(text, p).year_to

\* the position has no non-empty leading run free of digits, commas and "("
EmptyLeadingRun(position) ==
    position = "" \/ CharAt(position, 1) \in (Digit \cup {",", "("})

====
